---- MODULE Spec2Model ----
(***************************************************************************)
(* Model of the overlay generator (src/scoreboard.py, class ScoreBoard;    *)
(* src/creator.py, class VideoOverlayGenerator, is the same pipeline with  *)
(* no global parameters and no --keep flag).                               *)
(*                                                                         *)
(* Text is a sequence of one-character strings, so that str.replace is     *)
(* modelled on the characters.  A dict is the sequence of its <<key,       *)
(* value>> pairs in insertion order.  Time is counted in ticks of          *)
(* 1/TimeDen second, so that frame_num / fps >= timestamp is the exact     *)
(* integer comparison frame_num * TimeDen >= ticks * fps.                  *)
(***************************************************************************)
EXTENDS Integers, Sequences, FiniteSets, TLC

\* ------------------------------------------------------------- bounds
MaxEvents == 2        \* data rows of the input table
MaxTs == 2            \* largest timestamp of a row, in ticks
TimeDen == 2          \* ticks per second
MaxFps == 2           \* largest --fps
MaxDuration == 4      \* largest --duration, in ticks
MaxWidth == 3         \* columns of an image handed to the crop
MaxHeight == 3        \* rows of an image handed to the crop
MaxRuns == 2          \* generate_overlay calls on one object

VARIABLES
    args,              \* [fps, duration, keep]: the parsed command line;
                       \* duration is None or <<ticks>>
    csv_rows,          \* the rows of the input table, in file order
    template,          \* the text of the template file
    global_params,     \* self.global_params
    data,              \* generate_overlay's data (the sorted rows)
    driver,            \* self.driver: "None", "open" or "closed"
    last_params,       \* self.last_params
    last_frame_path,   \* self.last_frame_path
    total_frames,
    current_data_idx,
    frame_num,         \* the next frame of the loop
    temp_dir,          \* the temporary directory of the run, 0 before it exists
    dirs,              \* the temporary directories that exist
    files,             \* the frame files that exist: path -> raster
    output_file,       \* what is at output_path
    pc,                \* where generate_overlay is
    error,             \* the exception that ended the run, "" if none
    render_calls,      \* calls of render_html_to_image
    crop_calls,        \* calls of crop_transparent_borders
    encoder_calls,     \* runs of the ffmpeg process
    encoder_input,     \* the frame files ffmpeg found when it ran
    encoder_exit,      \* [returncode, stderr] of the last ffmpeg process
    error_message,     \* str() of the exception encode_video raised
    frame_log,         \* per processed frame: the row used and how it was made
    fill_args,         \* the arguments of a direct fill_template call
    fill_result,       \* its result
    crop_args,         \* the image of a direct crop_transparent_borders call
    crop_result        \* the image it left in the file

vars == <<args, csv_rows, template, global_params, data, driver, last_params,
          last_frame_path, total_frames, current_data_idx, frame_num, temp_dir,
          dirs, files, output_file, pc, error, render_calls, crop_calls,
          encoder_calls, encoder_input, encoder_exit, error_message, frame_log,
          fill_args, fill_result, crop_args, crop_result>>

run_vars == <<data, driver, last_params, last_frame_path, total_frames,
              current_data_idx, frame_num, temp_dir, dirs, files, output_file,
              pc, error, render_calls, crop_calls, encoder_calls,
              encoder_input, encoder_exit, error_message, frame_log>>

input_vars == <<args, csv_rows, template, global_params>>

\* the variables of the direct calls of fill_template and of the crop
call_vars == <<fill_args, fill_result, crop_args, crop_result>>

\* ------------------------------------------------------------- dicts
None == <<>>

Keys(d) == {d[i][1] : i \in DOMAIN d}

Get(d, key) == d[CHOOSE i \in DOMAIN d : d[i][1] = key][2]

\* d[key] = value
DictSet(d, key, value) ==
    IF key \in Keys(d)
    THEN [i \in DOMAIN d |-> IF d[i][1] = key THEN <<key, value>> ELSE d[i]]
    ELSE Append(d, <<key, value>>)

\* d.update(u)
RECURSIVE DictUpdate(_, _)
DictUpdate(d, u) ==
    IF u = <<>> THEN d
    ELSE DictUpdate(DictSet(d, Head(u)[1], Head(u)[2]), Tail(u))

\* d == e for two dicts (None is equal to no dict)
DictEq(d, e) ==
    /\ Keys(d) = Keys(e)
    /\ \A k \in Keys(d) : Get(d, k) = Get(e, k)

\* ------------------------------------------------------------- text
KeyChars(key) ==
    IF key = "timestamp" THEN <<"t", "i", "m", "e", "s", "t", "a", "m", "p">>
    ELSE <<key>>

Placeholder(key) == <<"{", "{">> \o KeyChars(key) \o <<"}", "}">>

\* str(value) of a value that is a str already
Str(value) == value

\* s.replace(old, new), old not empty: leftmost occurrences, not overlapping
RECURSIVE Replace(_, _, _)
Replace(s, old, new) ==
    IF Len(s) < Len(old) THEN s
    ELSE IF SubSeq(s, 1, Len(old)) = old
         THEN new \o Replace(SubSeq(s, Len(old) + 1, Len(s)), old, new)
         ELSE <<Head(s)>> \o Replace(Tail(s), old, new)

MergeParamsEventWins(gparams, params) == DictUpdate(gparams, params)

\* allparams = params.copy(); allparams.update(global_params)
MergeParams(gparams, params) == DictUpdate(params, gparams)

\* the for loop of fill_template over allparams.items()
RECURSIVE SubstituteAll(_, _)
SubstituteAll(result, allparams) ==
    IF allparams = <<>> THEN result
    ELSE LET key == Head(allparams)[1]
             value == Head(allparams)[2]
         IN SubstituteAll(IF key # "timestamp"
                          THEN Replace(result, Placeholder(key), Str(value))
                          ELSE result,
                          Tail(allparams))

\* a token of the name y, which no map has, is blanked
fill_template_blank(template_content, gparams, params) ==
    Replace(SubstituteAll(template_content, MergeParams(gparams, params)),
            Placeholder("y"), <<>>)

\* the key timestamp is skipped for the row only, not for the globals
fill_template_ts(template_content, gparams, params) ==
    SubstituteAll(IF "timestamp" \in Keys(gparams)
                  THEN Replace(template_content, Placeholder("timestamp"),
                               Str(Get(gparams, "timestamp")))
                  ELSE template_content,
                  MergeParams(gparams, params))

fill_template(template_content, gparams, params) ==
    SubstituteAll(template_content, MergeParams(gparams, params))

\* ------------------------------------------------------------- timeline
TimestampOf(row) == Get(row, "timestamp")

\* list.sort is stable: a row goes after the rows of the same timestamp
RECURSIVE InsertSorted(_, _)
InsertSorted(sorted, row) ==
    IF sorted = <<>> THEN <<row>>
    ELSE IF TimestampOf(row) < TimestampOf(Head(sorted))
         THEN <<row>> \o sorted
         ELSE <<Head(sorted)>> \o InsertSorted(Tail(sorted), row)

RECURSIVE SortByTimestamp(_)
SortByTimestamp(rows) ==
    IF rows = <<>> THEN <<>>
    ELSE InsertSorted(SortByTimestamp(SubSeq(rows, 1, Len(rows) - 1)),
                      rows[Len(rows)])

read_csv_data(rows) == SortByTimestamp(rows)

\* the while loop with > for >=: an Event starts one frame late
RECURSIVE AdvanceIdxStrict(_, _, _, _)
AdvanceIdxStrict(d, idx, fnum, fps) ==
    IF /\ idx < Len(d) - 1
       /\ fnum * TimeDen > TimestampOf(d[idx + 2]) * fps
    THEN AdvanceIdxStrict(d, idx + 1, fnum, fps)
    ELSE idx

\* one step of a cursor that starts again at the first row after the last
AdvanceIdxWrap(d, idx, fnum, fps) ==
    LET next == (idx + 1) % Len(d)
    IN IF fnum * TimeDen >= TimestampOf(d[next + 1]) * fps THEN next ELSE idx

\* the while loop of the frame loop; idx counts from 0 as in the source
RECURSIVE AdvanceIdx(_, _, _, _)
AdvanceIdx(d, idx, fnum, fps) ==
    IF /\ idx < Len(d) - 1
       /\ fnum * TimeDen >= TimestampOf(d[idx + 2]) * fps
    THEN AdvanceIdx(d, idx + 1, fnum, fps)
    ELSE idx

\* "if self.args.duration": false for None and for 0.0
Truthy(duration) == duration # None /\ duration[1] # 0

\* the override is not None
IsNotNone(duration) == duration # None

\* duration, in ticks
Duration(a, d) ==
    IF Truthy(a.duration) THEN a.duration[1]
    ELSE TimestampOf(d[Len(d)]) + TimeDen

\* the frame count rounded up instead of truncated
TotalFramesCeil(duration, fps) == (duration * fps + TimeDen - 1) \div TimeDen

\* int(duration * self.fps), duration >= 0
TotalFrames(duration, fps) == (duration * fps) \div TimeDen

\* ------------------------------------------------------------- files
FramePath(dir, fnum) == <<dir, fnum>>

WriteFile(fs, path, raster) ==
    [p \in (DOMAIN fs) \cup {path} |-> IF p = path THEN raster ELSE fs[p]]

RemoveDir(fs, dir) == [p \in {q \in DOMAIN fs : q[1] # dir} |-> fs[p]]

FilesIn(fs, dir) == {p[2] : p \in {q \in DOMAIN fs : q[1] = dir}}

\* page.goto + page.screenshot: the backend is a function of the markup
render_html_to_image(fs, html_content, output_path) ==
    WriteFile(fs, output_path, [html |-> html_content, cropped |-> FALSE])

\* crops the image file in place
crop_transparent_borders(fs, image_path) ==
    WriteFile(fs, image_path, [fs[image_path] EXCEPT !.cropped = TRUE])

\* shutil.copy(src, dst), src exists
CopyFile(fs, src, dst) == WriteFile(fs, dst, fs[src])

\* a directory that is never removed
TempDirExitDirsLeak(ds, dir, keep) == ds

\* leaving "with tempfile.TemporaryDirectory(delete=not self.args.keep)"
TempDirExitDirs(ds, dir, keep) == IF keep THEN ds ELSE ds \ {dir}

TempDirExitFiles(fs, dir, keep) == IF keep THEN fs ELSE RemoveDir(fs, dir)

\* no cache: every frame is rendered
NeedsRenderAlways(current_params, last) == TRUE

\* a cache that renders the first frame only
NeedsRenderFirstOnly(current_params, last) == last = None

\* a cache that compares the column names only
NeedsRenderKeysOnly(current_params, last) == Keys(current_params) # Keys(last)

\* current_params != self.last_params
NeedsRender(current_params, last) == ~DictEq(current_params, last)

\* cleanup_browser
cleanup_browser(drv) == IF drv # "None" THEN "closed" ELSE drv

\* ------------------------------------------------------------- inputs
Values == {<<"A">>, <<"B">>}

\* a row of csv.DictReader under the header timestamp,x
Row(ts, v) == <<(<<"timestamp", ts>>), (<<"x", v>>)>>

RowSet == {Row(ts, v) : ts \in 0..MaxTs, v \in Values}

CsvChoices == UNION {[1..n -> RowSet] : n \in 0..MaxEvents}

\* --set x=G, or no --set
GlobalChoices == {<<>>, <<(<<"x", <<"G">>>>)>>}

\* <{{x}}{{g}}>
OverlayTemplate ==
    <<"<", "{", "{", "x", "}", "}", "{", "{", "g", "}", "}", ">">>

\* no --duration, or --duration with a number >= 0
DurationChoices == {None} \cup {<<t>> : t \in 0..MaxDuration}

ArgsChoices == [fps : 1..MaxFps, duration : DurationChoices, keep : BOOLEAN]

\* ------------------------------------------------------------- the run
\* ScoreBoard.__init__, before generate_overlay is called
InitRun ==
    /\ data = <<>>
    /\ driver = "None"
    /\ last_params = None
    /\ last_frame_path = None
    /\ total_frames = 0
    /\ current_data_idx = 0
    /\ frame_num = 0
    /\ temp_dir = 0
    /\ dirs = {}
    /\ files = <<>>
    /\ pc = "Idle"
    /\ error = ""
    /\ render_calls = 0
    /\ crop_calls = 0
    /\ encoder_calls = 0
    /\ encoder_input = {}
    /\ encoder_exit = [returncode |-> 0, stderr |-> ""]
    /\ error_message = ""
    /\ frame_log = <<>>

Init ==
    /\ args \in ArgsChoices
    /\ csv_rows \in CsvChoices
    /\ template = OverlayTemplate
    /\ global_params \in GlobalChoices
    /\ output_file = "absent"
    /\ InitRun
    /\ fill_args = None
    /\ fill_result = None
    /\ crop_args = None
    /\ crop_result = None

\* an exception that is swallowed: the loop goes on to the next frame
RaiseSwallowed(err, fs) ==
    /\ pc' = IF frame_num < total_frames THEN pc ELSE "Done"
    /\ error' = err
    /\ files' = fs
    /\ dirs' = dirs
    /\ frame_num' = IF frame_num < total_frames THEN frame_num + 1
                    ELSE frame_num
    /\ UNCHANGED <<data, driver, last_params, last_frame_path, total_frames,
                   current_data_idx, temp_dir>>

\* an exception leaves the with block of the temporary directory and then
\* generate_overlay; nothing on that path closes the browser
Raise(err, fs) ==
    /\ pc' = "Failed"
    /\ error' = err
    /\ files' = TempDirExitFiles(fs, temp_dir, args.keep)
    /\ dirs' = TempDirExitDirs(dirs, temp_dir, args.keep)
    /\ frame_num' = frame_num
    /\ UNCHANGED <<data, driver, last_params, last_frame_path, total_frames,
                   current_data_idx, temp_dir>>

\* the emptiness of the table is noticed after the browser was launched
ReadCsvDataLate ==
    /\ pc = "Idle"
    /\ data' = read_csv_data(csv_rows)
    /\ IF data' = <<>>
       THEN pc' = "Failed" /\ error' = "ValueError" /\ driver' = "open"
       ELSE pc' = "HaveData" /\ error' = error /\ driver' = driver
    /\ UNCHANGED <<last_params, last_frame_path, total_frames,
                   current_data_idx, frame_num, temp_dir, dirs, files,
                   output_file, render_calls, crop_calls, encoder_calls,
                   encoder_input, frame_log>>
    /\ UNCHANGED <<input_vars, call_vars>>
    /\ UNCHANGED <<encoder_exit, error_message>>

\* data = self.read_csv_data(csv_path); if not data: raise ValueError
ReadCsvData ==
    /\ pc = "Idle"
    /\ data' = read_csv_data(csv_rows)
    /\ IF data' = <<>>
       THEN pc' = "Failed" /\ error' = "ValueError"
       ELSE pc' = "HaveData" /\ error' = error
    /\ UNCHANGED <<driver, last_params, last_frame_path, total_frames,
                   current_data_idx, frame_num, temp_dir, dirs, files,
                   output_file, render_calls, crop_calls, encoder_calls,
                   encoder_input, frame_log>>
    /\ UNCHANGED <<input_vars, call_vars>>
    /\ UNCHANGED <<encoder_exit, error_message>>

\* the template is read and setup_browser launches the browser
SetupBrowser ==
    /\ pc = "HaveData"
    /\ driver' = "open"
    /\ pc' = "BackendReady"
    /\ UNCHANGED <<data, last_params, last_frame_path, total_frames,
                   current_data_idx, frame_num, temp_dir, dirs, files,
                   output_file, error, render_calls, crop_calls, encoder_calls,
                   encoder_input, frame_log>>
    /\ UNCHANGED <<input_vars, call_vars>>
    /\ UNCHANGED <<encoder_exit, error_message>>

\* open(template_path) or the launch of the browser raises
SetupFails ==
    /\ pc = "HaveData"
    /\ pc' = "Failed"
    /\ error' \in {"OSError", "PlaywrightError"}
    /\ UNCHANGED <<data, driver, last_params, last_frame_path, total_frames,
                   current_data_idx, frame_num, temp_dir, dirs, files,
                   output_file, render_calls, crop_calls, encoder_calls,
                   encoder_input, frame_log>>
    /\ UNCHANGED <<input_vars, call_vars>>
    /\ UNCHANGED <<encoder_exit, error_message>>

\* duration, total_frames, the temporary directory, the start of the loop
BeginFrames ==
    /\ pc = "BackendReady"
    /\ total_frames' = TotalFrames(Duration(args, data), args.fps)
    /\ temp_dir' = temp_dir + 1
    /\ dirs' = dirs \cup {temp_dir'}
    /\ current_data_idx' = 0
    /\ frame_num' = 0
    /\ pc' = "Rendering"
    /\ UNCHANGED <<data, driver, last_params, last_frame_path, files,
                   output_file, error, render_calls, crop_calls, encoder_calls,
                   encoder_input, frame_log>>
    /\ UNCHANGED <<input_vars, call_vars>>
    /\ UNCHANGED <<encoder_exit, error_message>>

\* ------------------------------------------------------------- one frame
\* current_data_idx after the while loop, for the frame frame_num
ResolvedIdx == AdvanceIdx(data, current_data_idx, frame_num, args.fps)

CurrentParams == data[ResolvedIdx + 1]

HtmlContent == fill_template(template, global_params, CurrentParams)

ThisFramePath == FramePath(temp_dir, frame_num)

InLoop == pc = "Rendering" /\ frame_num < total_frames

\* the end of an iteration that raised nothing
FrameDone(fs, fresh) ==
    /\ files' = fs
    /\ last_frame_path' = ThisFramePath
    /\ last_params' = CurrentParams
    /\ current_data_idx' = ResolvedIdx
    /\ frame_num' = frame_num + 1
    /\ frame_log' = Append(frame_log, [frame |-> frame_num,
                                       idx |-> ResolvedIdx,
                                       params |-> CurrentParams,
                                       fresh |-> fresh,
                                       raster |-> fs[ThisFramePath]])
    /\ UNCHANGED <<data, driver, total_frames, temp_dir, dirs, output_file,
                   pc, error, encoder_calls, encoder_input>>
    /\ UNCHANGED <<input_vars, call_vars>>
    /\ UNCHANGED <<encoder_exit, error_message>>

\* the frame is rendered and cropped
RenderFrame ==
    /\ InLoop
    /\ NeedsRender(CurrentParams, last_params)
    /\ render_calls' = render_calls + 1
    /\ crop_calls' = crop_calls + 1
    /\ FrameDone(crop_transparent_borders(
                     render_html_to_image(files, HtmlContent, ThisFramePath),
                     ThisFramePath), TRUE)

\* render_html_to_image raises
RenderFails ==
    /\ InLoop
    /\ NeedsRender(CurrentParams, last_params)
    /\ render_calls' = render_calls + 1
    /\ Raise("RenderBackendError", files)
    /\ UNCHANGED <<output_file, crop_calls, encoder_calls, encoder_input,
                   frame_log>>
    /\ UNCHANGED <<input_vars, call_vars>>
    /\ UNCHANGED <<encoder_exit, error_message>>

\* crop_transparent_borders raises on the rendered file
CropFails ==
    /\ InLoop
    /\ NeedsRender(CurrentParams, last_params)
    /\ render_calls' = render_calls + 1
    /\ crop_calls' = crop_calls + 1
    /\ Raise("CropError",
             render_html_to_image(files, HtmlContent, ThisFramePath))
    /\ UNCHANGED <<output_file, encoder_calls, encoder_input, frame_log>>
    /\ UNCHANGED <<input_vars, call_vars>>
    /\ UNCHANGED <<encoder_exit, error_message>>

\* a copied frame that is cropped again
CloneFrameCropped ==
    /\ InLoop
    /\ ~NeedsRender(CurrentParams, last_params)
    /\ last_frame_path \in DOMAIN files
    /\ render_calls' = render_calls
    /\ crop_calls' = crop_calls + 1
    /\ FrameDone(crop_transparent_borders(
                     CopyFile(files, last_frame_path, ThisFramePath),
                     ThisFramePath), FALSE)

\* the frame is a copy of the file at self.last_frame_path
CloneFrame ==
    /\ InLoop
    /\ ~NeedsRender(CurrentParams, last_params)
    /\ last_frame_path \in DOMAIN files
    /\ UNCHANGED <<render_calls, crop_calls>>
    /\ FrameDone(CopyFile(files, last_frame_path, ThisFramePath), FALSE)

\* shutil.copy raises (always so when its source is missing)
CopyFails ==
    /\ InLoop
    /\ ~NeedsRender(CurrentParams, last_params)
    /\ Raise("CopyError", files)
    /\ UNCHANGED <<output_file, render_calls, crop_calls, encoder_calls,
                   encoder_input, frame_log>>
    /\ UNCHANGED <<input_vars, call_vars>>
    /\ UNCHANGED <<encoder_exit, error_message>>

\* ------------------------------------------------------------- encoding
LoopOver == pc = "Rendering" /\ frame_num = total_frames

\* what ffmpeg reads: the frame files of the directory
FramesOf(fs, dir) == [n \in FilesIn(fs, dir) |-> fs[FramePath(dir, n)]]

\* what ffmpeg writes on stderr when it fails
StderrTexts == {"Unknown encoder", "No space left on device"}

\* str() of subprocess.CalledProcessError
CalledProcessErrorText == "Command returned non-zero exit status"

\* subprocess.run(cmd, check=check, capture_output=True, text=True): the
\* exception it raises ("" for none) and the CompletedProcess
subprocess_run(returncode, stderr, check) ==
    IF check /\ returncode # 0
    THEN [raised |-> "CalledProcessError", message |-> CalledProcessErrorText,
          returncode |-> returncode, stderr |-> stderr]
    ELSE [raised |-> "", message |-> "",
          returncode |-> returncode, stderr |-> stderr]

\* encode_video once ffmpeg has exited: the exception it raises
encode_video(returncode, stderr) ==
    LET proc == subprocess_run(returncode, stderr, TRUE)
    IN IF proc.raised # "" THEN proc
       ELSE IF proc.returncode # 0
            THEN [proc EXCEPT !.raised = "Exception", !.message = proc.stderr]
            ELSE proc

\* ffmpeg exits 0; the with block is left, then cleanup_browser
EncodeVideo ==
    /\ LoopOver
    /\ encode_video(0, "").raised = ""
    /\ encoder_exit' = [returncode |-> 0, stderr |-> ""]
    /\ error_message' = error_message
    /\ encoder_calls' = encoder_calls + 1
    /\ encoder_input' = encoder_input \cup {FramesOf(files, temp_dir)}
    /\ output_file' = "video"
    /\ files' = TempDirExitFiles(files, temp_dir, args.keep)
    /\ dirs' = TempDirExitDirs(dirs, temp_dir, args.keep)
    /\ driver' = cleanup_browser(driver)
    /\ pc' = "Done"
    /\ UNCHANGED <<data, last_params, last_frame_path, total_frames,
                   current_data_idx, frame_num, temp_dir, error, render_calls,
                   crop_calls, frame_log>>
    /\ UNCHANGED <<input_vars, call_vars>>

\* what ffmpeg can leave at output_path when it fails: it opens its input
\* first, so it has written nothing unless there are frames
FailedOutputs(out, fs, dir) ==
    {out} \cup (IF FilesIn(fs, dir) # {} THEN {"partial"} ELSE {})

\* ffmpeg exits non-zero: subprocess.run(check=True) raises.  encode_video
\* removes nothing at output_path.
EncodeFails ==
    /\ LoopOver
    /\ encoder_calls' = encoder_calls + 1
    /\ encoder_input' = encoder_input \cup {FramesOf(files, temp_dir)}
    /\ output_file' \in FailedOutputs(output_file, files, temp_dir)
    /\ \E stderr \in StderrTexts :
           LET raised == encode_video(1, stderr)
           IN /\ raised.raised # ""
              /\ encoder_exit' = [returncode |-> 1, stderr |-> stderr]
              /\ error_message' = raised.message
              /\ Raise(raised.raised, files)
    /\ UNCHANGED <<render_calls, crop_calls, frame_log>>
    /\ UNCHANGED <<input_vars, call_vars>>

Next ==
    \/ ReadCsvData
    \/ SetupBrowser
    \/ SetupFails
    \/ BeginFrames
    \/ RenderFrame
    \/ RenderFails
    \/ CropFails
    \/ CloneFrame
    \/ CopyFails
    \/ EncodeVideo
    \/ EncodeFails

Spec == Init /\ [][Next]_vars

\* ------------------------------------------------------------- a second call
\* generate_overlay is called again on the object, with the same files: its
\* locals start anew; self.last_params, self.last_frame_path, self.driver and
\* the file system are what the call before left
Rerun ==
    /\ pc \in {"Done", "Failed"}
    /\ temp_dir < MaxRuns
    /\ pc' = "Idle"
    /\ error' = ""
    /\ data' = <<>>
    /\ total_frames' = 0
    /\ current_data_idx' = 0
    /\ frame_num' = 0
    /\ render_calls' = 0
    /\ crop_calls' = 0
    /\ encoder_calls' = 0
    /\ encoder_input' = {}
    /\ encoder_exit' = [returncode |-> 0, stderr |-> ""]
    /\ error_message' = ""
    /\ frame_log' = <<>>
    /\ UNCHANGED <<driver, last_params, last_frame_path, temp_dir, dirs, files,
                   output_file>>
    /\ UNCHANGED <<input_vars, call_vars>>

NextRerun == Next \/ Rerun

SpecRerun == Init /\ [][NextRerun]_vars

\* ------------------------------------------------------------- properties
\* the parameter name -> value mapping of a row, the timestamp left out
ParamsOnly(row) == [k \in Keys(row) \ {"timestamp"} |-> Get(row, k)]

\* the position (from 1) of the last Event of d whose timestamp is <= i/fps,
\* the first Event when there is none
LastEventAt(d, i, fps) ==
    LET S == {j \in 1..Len(d) : TimestampOf(d[j]) * fps <= i * TimeDen}
    IN IF S = {} THEN 1 ELSE CHOOSE j \in S : \A m \in S : m <= j

\* floor(duration * fps), stated without \div
FloorFrames(duration, fps) ==
    CHOOSE n \in 0..(duration * fps) :
        n * TimeDen <= duration * fps /\ duration * fps < (n + 1) * TimeDen

FrameErrors == {"RenderBackendError", "CropError", "CopyError"}

RunEnded == pc \in {"Done", "Failed"}

\* C1: every processed frame i used the last Event of the sorted Timeline
\* whose timestamp is <= i/fps, and the first Event when i/fps is before
\* every timestamp.
C1_FrameUsesLastEventAtOrBefore ==
    \A k \in DOMAIN frame_log :
        LET j == LastEventAt(data, frame_log[k].frame, args.fps)
        IN /\ frame_log[k].idx + 1 = j
           /\ frame_log[k].params = data[j]

\* a frame before the first timestamp was held on the first Event, and a
\* later frame moved on to a later Event
C1_Witness ==
    /\ Len(frame_log) >= 2
    /\ TimestampOf(data[1]) > 0
    /\ frame_log[1].idx = 0
    /\ frame_log[Len(frame_log)].idx >= 1

\* C2, as claimed: a frame i >= 1 whose parameter name -> value mapping
\* equals that of frame i-1 is not rendered and is a copy of frame i-1.
C2_EqualParamsAreCloned ==
    \A k \in DOMAIN frame_log :
        (k >= 2 /\ ParamsOnly(frame_log[k].params)
                     = ParamsOnly(frame_log[k - 1].params))
        => /\ ~frame_log[k].fresh
           /\ frame_log[k].raster = frame_log[k - 1].raster

\* C3: a frame i >= 1 whose row differs from that of frame i-1 in some
\* key/value pair is rendered afresh and then cropped, never copied.
C3_DifferentParamsAreRendered ==
    \A k \in DOMAIN frame_log :
        (k >= 2 /\ ~DictEq(frame_log[k].params, frame_log[k - 1].params))
        => /\ frame_log[k].fresh
           /\ frame_log[k].raster.cropped
           /\ frame_log[k].raster.html
                  = fill_template(template, global_params, frame_log[k].params)

C3_Witness ==
    \E k \in DOMAIN frame_log :
        /\ k >= 2
        /\ ParamsOnly(frame_log[k].params) # ParamsOnly(frame_log[k - 1].params)
        /\ frame_log[k].fresh

\* C4: in the loop, after a frame was processed, last_params is that frame's
\* row and last_frame_path names an existing file whose content is what
\* rendering and cropping that row gives.
C4_CacheNeverStale ==
    (pc = "Rendering" /\ frame_log # <<>>)
    => LET cur == frame_log[Len(frame_log)].params
       IN /\ DictEq(last_params, cur)
          /\ last_frame_path = FramePath(temp_dir, Len(frame_log) - 1)
          /\ last_frame_path \in DOMAIN files
          /\ files[last_frame_path]
                 = [html |-> fill_template(template, global_params, cur),
                    cropped |-> TRUE]

\* a cloned frame follows a frame that was rendered from another Event
C4_Witness ==
    /\ pc = "Rendering"
    /\ Len(frame_log) >= 3
    /\ ~frame_log[Len(frame_log)].fresh
    /\ frame_log[Len(frame_log)].idx >= 1
    /\ global_params = <<>>
    /\ frame_log[Len(frame_log)].raster # frame_log[1].raster

\* C6, as claimed: no run ends with the browser still open.
C6_BackendReleasedOnEveryExit == RunEnded => driver # "open"

\* C7: when a run that created its temporary directory has ended, the
\* directory and its frame files are still there exactly when --keep is set.
C7_TempDirRemovedUnlessKept ==
    (RunEnded /\ temp_dir # 0)
    => /\ (temp_dir \in dirs) <=> args.keep
       /\ ~args.keep => FilesIn(files, temp_dir) = {}
       /\ args.keep => (\/ FilesIn(files, temp_dir) = 0..(frame_num - 1)
                        \/ FilesIn(files, temp_dir) = 0..frame_num)

C7_Witness ==
    /\ pc = "Failed"
    /\ error \in FrameErrors
    /\ frame_num >= 1
    /\ ~args.keep
    /\ temp_dir \notin dirs

\* C8: the encoder runs at most once, and what it finds is one file for each
\* index 0..N-1, N = floor(duration * fps), the frames made in index order.
C8_EncoderOnceOverAllFrames ==
    LET N == FloorFrames(Duration(args, data), args.fps)
    IN /\ encoder_calls <= 1
       /\ Cardinality(encoder_input) = encoder_calls
       /\ \A fr \in encoder_input : DOMAIN fr = 0..(N - 1)
       /\ encoder_calls = 1
          => /\ Len(frame_log) = N
             /\ \A k \in DOMAIN frame_log : frame_log[k].frame = k - 1

C8_Witness ==
    /\ encoder_calls = 1
    /\ Len(frame_log) >= 1
    /\ (Duration(args, data) * args.fps) % TimeDen # 0

\* C9: when rendering, cropping or copying a frame raised, the run has
\* failed at that frame: no frame after it was processed, the encoder did
\* not run, no video was written and nothing more happens.
C9_FrameErrorAbortsRun ==
    error \in FrameErrors
    => /\ pc = "Failed"
       /\ Len(frame_log) = frame_num
       /\ frame_num < total_frames
       /\ encoder_calls = 0
       /\ output_file = "absent"
       /\ ~ENABLED Next

C9_Witness ==
    /\ error \in FrameErrors
    /\ frame_num >= 1
    /\ frame_num + 1 < total_frames

\* C10, as claimed: when ffmpeg exits non-zero the run fails and there is no
\* file at output_path.
C10_EncoderFailureLeavesNoOutput ==
    error = "CalledProcessError" => (pc = "Failed" /\ output_file = "absent")

\* C11, as claimed: when ffmpeg exits non-zero, the message of the error that
\* leaves encode_video is what ffmpeg wrote on stderr, and ffmpeg was run once.
C11_EncoderErrorCarriesStderr ==
    encoder_exit.returncode # 0
    => (/\ pc = "Failed"
        /\ error_message = encoder_exit.stderr
        /\ encoder_calls = 1)

\* the duration the claim C12 names: the override when one was supplied
ClaimedDuration ==
    IF IsNotNone(args.duration) THEN args.duration[1]
    ELSE TimestampOf(data[Len(data)]) + TimeDen

\* C12, as claimed: once the frame count is computed it is
\* floor(duration * fps), with the override as duration whenever one was
\* supplied and last timestamp + 1 second only when none was.
C12_TotalFramesFromOverride ==
    temp_dir >= 1 => total_frames = FloorFrames(ClaimedDuration, args.fps)

\* C15: a run over an empty table fails with ValueError and has launched no
\* browser, rendered no frame, created no directory and run no encoder.
C15_EmptyTableFailsBeforeBackend ==
    (csv_rows = <<>> /\ pc # "Idle")
    => (/\ pc = "Failed"
        /\ error = "ValueError"
        /\ driver = "None"
        /\ temp_dir = 0
        /\ render_calls = 0
        /\ crop_calls = 0
        /\ encoder_calls = 0
        /\ frame_log = <<>>
        /\ files = <<>>
        /\ ~ENABLED Next)

C15_Witness == csv_rows = <<>> /\ pc = "Failed" /\ error = "ValueError"

\* C16: the index resolved for a frame is never below the index of the frame
\* before it, and the cursor never points past the last row.
C16_CursorMonotoneAndBounded ==
    /\ \A i \in 1..Len(frame_log) :
           /\ frame_log[i].idx \in 0..(Len(data) - 1)
           /\ i > 1 => frame_log[i - 1].idx <= frame_log[i].idx
    /\ data # <<>> => current_data_idx \in 0..(Len(data) - 1)
    /\ frame_log # <<>>
       => current_data_idx = frame_log[Len(frame_log)].idx

\* the cursor moved to the last row and later frames stayed on it
C16_Witness ==
    /\ Len(data) = MaxEvents
    /\ Len(frame_log) >= 3
    /\ frame_log[1].idx = 0
    /\ frame_log[Len(frame_log)].idx = Len(data) - 1
    /\ frame_log[Len(frame_log) - 1].idx = Len(data) - 1

FreshFrames == {i \in 1..Len(frame_log) : frame_log[i].fresh}

\* C19: between frames the crop has run once for each rendered frame and for
\* no other, a rendered frame is cropped when the next frame starts, and a
\* render that succeeded is followed by its crop before anything else.
C19_CropOncePerRenderedFrame ==
    /\ crop_calls = Cardinality(FreshFrames)
                    + (IF error = "CropError" THEN 1 ELSE 0)
    /\ render_calls = Cardinality(FreshFrames)
                      + (IF error \in {"CropError", "RenderBackendError"}
                         THEN 1 ELSE 0)
    /\ \A i \in FreshFrames : frame_log[i].raster.cropped

\* two rendered and cropped frames with a cloned frame between them
C19_Witness ==
    /\ Len(frame_log) >= 3
    /\ \E i, j, k \in 1..Len(frame_log) :
           /\ i < j /\ j < k
           /\ frame_log[i].fresh /\ ~frame_log[j].fresh /\ frame_log[k].fresh
    /\ crop_calls = 2

\* C20, as claimed: in every call of generate_overlay, the second on the same
\* object included, frame 0 is rendered: it is no copy, and no copy of a file
\* of an earlier call is attempted for it.
C20_FirstFrameAlwaysRendered ==
    /\ frame_log # <<>> => frame_log[1].fresh
    /\ error = "CopyError" => frame_log # <<>>

\* C21: in one run render_html_to_image is called at most once per row of the
\* table and at most once per frame, and a frame that was not rendered holds
\* a copy of the frame before it.
C21_RendersBoundedByEventsAndFrames ==
    /\ render_calls <= Len(data)
    /\ render_calls <= total_frames
    /\ render_calls >= Cardinality(FreshFrames)
    /\ Len(frame_log) <= total_frames
    /\ pc = "Done" => Len(frame_log) = total_frames
    /\ \A i \in 1..Len(frame_log) :
           ~frame_log[i].fresh
           => (i > 1 /\ frame_log[i].raster = frame_log[i - 1].raster)

\* every row was rendered once and the run has more frames than rows
C21_Witness ==
    /\ pc = "Done"
    /\ Len(data) = MaxEvents
    /\ render_calls = Len(data)
    /\ total_frames > Len(data)
    /\ \E i \in 1..Len(frame_log) : ~frame_log[i].fresh

\* ------------------------------------------------------------- fill_template alone
GlobalKeys == {"x", "g", "timestamp"}

\* the templates: <{{x}}{{g}}>, {{g}}{{y}}, {{x}}-{{x}}, {{timestamp}}{{y}},
\* plain
FillTemplates ==
    {OverlayTemplate,
     Placeholder("g") \o Placeholder("y"),
     <<"{", "{", "x", "}", "}", "-", "{", "{", "x", "}", "}">>,
     <<"{", "{", "t", "i", "m", "e", "s", "t", "a", "m", "p", "}", "}",
       "{", "{", "y", "}", "}">>,
     <<"p", "l", "a", "i", "n">>}

\* no --set, one --set, or two of different names; a value is plain text or
\* the token of the other name
FillGlobals ==
    {<<>>}
    \cup {<<(<<k, <<"G">>>>)>> : k \in GlobalKeys}
    \cup UNION {{<<(<<k[1], v1>>), (<<k[2], v2>>)>> :
                     v1 \in {<<"G">>, Placeholder(k[2])},
                     v2 \in {<<"H">>, Placeholder(k[1])}} :
                 k \in {q \in GlobalKeys \X GlobalKeys : q[1] # q[2]}}

InitFill ==
    /\ args = [fps |-> 1, duration |-> None, keep |-> FALSE]
    /\ csv_rows = <<>>
    /\ template = OverlayTemplate
    /\ global_params = <<>>
    /\ output_file = "absent"
    /\ InitRun
    /\ fill_args = None
    /\ fill_result = None
    /\ crop_args = None
    /\ crop_result = None

\* fill_template(template_content, global_params, params)
FillCall ==
    \E t \in FillTemplates, g \in FillGlobals, e \in RowSet :
        /\ fill_args' = <<t, g, e>>
        /\ fill_result' = fill_template(t, g, e)
        /\ UNCHANGED <<input_vars, run_vars, crop_args, crop_result>>

NextFill == FillCall

SpecFill == InitFill /\ [][NextFill]_vars

\* every value of the dict is free of braces
BraceFree(d) ==
    \A i \in DOMAIN d :
        d[i][1] # "timestamp"
        => \A n \in DOMAIN d[i][2] : d[i][2][n] \notin {"{", "}"}

\* the text s with every token {{k}}, k a key of m, replaced by m[k] in one
\* pass from the left
RECURSIVE Expand(_, _)
Expand(s, m) ==
    IF s = <<>> THEN <<>>
    ELSE LET hit == {k \in DOMAIN m :
                        /\ Len(s) >= Len(Placeholder(k))
                        /\ SubSeq(s, 1, Len(Placeholder(k))) = Placeholder(k)}
         IN IF hit = {} THEN <<Head(s)>> \o Expand(Tail(s), m)
            ELSE LET k == CHOOSE k \in hit : TRUE
                 IN m[k] \o Expand(SubSeq(s, Len(Placeholder(k)) + 1, Len(s)), m)

\* the values the tokens stand for when the event-level value wins
EventWinsMap(g, e) ==
    [k \in (Keys(g) \cup Keys(e)) \ {"timestamp"} |->
        IF k \in Keys(e) THEN Get(e, k) ELSE Get(g, k)]

\* the values the tokens stand for when the global value wins
GlobalWinsMap(g, e) ==
    [k \in (Keys(g) \cup Keys(e)) \ {"timestamp"} |->
        IF k \in Keys(g) THEN Get(g, k) ELSE Get(e, k)]

HasConflict(g, e) ==
    \E k \in (Keys(g) \cap Keys(e)) \ {"timestamp"} : Get(g, k) # Get(e, k)

\* s.count(old), old not empty
RECURSIVE Occurrences(_, _)
Occurrences(s, old) ==
    IF Len(s) < Len(old) THEN 0
    ELSE IF SubSeq(s, 1, Len(old)) = old
         THEN 1 + Occurrences(SubSeq(s, Len(old) + 1, Len(s)), old)
         ELSE Occurrences(Tail(s), old)

\* the names a token of a template can have
TokenNames == {"x", "g", "y", "timestamp"}

EffectiveKeys(g, e) == Keys(g) \cup Keys(e)

\* the dict d with the key k deleted
Without(d, k) == SelectSeq(d, LAMBDA pair : pair[1] # k)

\* the orders in which the items of the dict d can be visited
Reorderings(d) ==
    {[i \in DOMAIN d |-> d[f[i]]] :
         f \in {h \in [DOMAIN d -> DOMAIN d] :
                   \A i, j \in DOMAIN d : i # j => h[i] # h[j]}}

\* C5, as claimed: for a key of both mappings every {{key}} token is replaced
\* by the event-level value.
C5_EventValueWins ==
    (fill_args # None /\ HasConflict(fill_args[2], fill_args[3]))
    => fill_result = Expand(fill_args[1],
                            EventWinsMap(fill_args[2], fill_args[3]))

\* C5, amended: for a key of both mappings every {{key}} token is replaced
\* by the global value; the event-level value is used for the keys that the
\* global mapping does not have (values free of braces).
C5_GlobalValueWins ==
    (/\ fill_args # None
     /\ BraceFree(fill_args[2])
     /\ BraceFree(fill_args[3]))
    => fill_result = Expand(fill_args[1],
                            GlobalWinsMap(fill_args[2], fill_args[3]))

\* {{x}} of a template was filled with the global G although the row has x
C5_Witness ==
    /\ fill_args # None
    /\ HasConflict(fill_args[2], fill_args[3])
    /\ fill_args[1] = OverlayTemplate
    /\ Keys(fill_args[2]) = {"x"}
    /\ fill_result = <<"<", "G", "{", "{", "g", "}", "}", ">">>

\* ------------------------------------------------------------- the crop alone
\* An image is [mode, pixels]: pixels[r][c] is the alpha of the pixel of row
\* r - 1 and column c - 1 (255 everywhere for a mode with no alpha).
Opaque == 255

Height(img) == Len(img.pixels)

Width(img) == Len(img.pixels[1])

\* the screenshots: RGBA of any alpha, or RGB
CropImages ==
    UNION {[mode : {"RGBA"}, pixels : [1..h -> [1..w -> {0, Opaque}]]]
           \cup [mode : {"RGB"}, pixels : {[r \in 1..h |-> [c \in 1..w |-> Opaque]]}] :
               h \in 1..MaxHeight, w \in 1..MaxWidth}

\* np.where(alpha.max(axis=1) > 0)[0], indices from 0
non_transparent_rows(img) ==
    {r \in 0..(Height(img) - 1) :
        \E c \in 0..(Width(img) - 1) : img.pixels[r + 1][c + 1] > 0}

\* np.where(alpha.max(axis=0) > 0)[0], indices from 0
non_transparent_cols(img) ==
    {c \in 0..(Width(img) - 1) :
        \E r \in 0..(Height(img) - 1) : img.pixels[r + 1][c + 1] > 0}

First(S) == CHOOSE n \in S : \A m \in S : n <= m

Last(S) == CHOOSE n \in S : \A m \in S : m <= n

\* a box that ends at the last opaque row and column, these excluded
CropBoxExclusive(left, top, right, bottom) == <<left, top, right, bottom>>

\* the box (left, upper, right, lower) handed to img.crop
CropBox(left, top, right, bottom) == <<left, top, right + 1, bottom + 1>>

\* PIL Image.crop(box): the pixels of the columns box[1]..box[3] - 1 and of
\* the rows box[2]..box[4] - 1
ImageCrop(img, box) ==
    [img EXCEPT !.pixels =
        [r \in 1..(box[4] - box[2]) |->
            [c \in 1..(box[3] - box[1]) |-> img.pixels[box[2] + r][box[1] + c]]]]

\* crop_transparent_borders on the pixels: the image the file holds afterwards
CropImage(img) ==
    IF img.mode # "RGBA" THEN img
    ELSE LET rows == non_transparent_rows(img)
             cols == non_transparent_cols(img)
         IN IF rows = {} \/ cols = {} THEN img
            ELSE ImageCrop(img, CropBox(First(cols), First(rows),
                                        Last(cols), Last(rows)))

InitCrop ==
    /\ args = [fps |-> 1, duration |-> None, keep |-> FALSE]
    /\ csv_rows = <<>>
    /\ template = OverlayTemplate
    /\ global_params = <<>>
    /\ output_file = "absent"
    /\ InitRun
    /\ fill_args = None
    /\ fill_result = None
    /\ crop_args \in CropImages
    /\ crop_result = None

\* crop_transparent_borders(image_path) on a file that holds crop_args
CropCall ==
    /\ crop_result = None
    /\ crop_result' = CropImage(crop_args)
    /\ UNCHANGED <<input_vars, run_vars, fill_args, fill_result, crop_args>>

NextCrop == CropCall

SpecCrop == InitCrop /\ [][NextCrop]_vars

\* the <<row, column>> of the pixels of alpha > 0, counted from 1
OpaquePixels(img) ==
    {q \in (1..Height(img)) \X (1..Width(img)) : img.pixels[q[1]][q[2]] > 0}

\* C14: the crop of an RGBA image with a pixel of alpha > 0 is the part of it
\* between the first and the last row and column that have such a pixel,
\* these included (1x1 for a single such pixel); an image with no such pixel
\* is left as it was.
C14_CropIsMinimalBoundingBox ==
    (crop_result # None /\ crop_args.mode = "RGBA")
    => LET P == OpaquePixels(crop_args)
       IN IF P = {} THEN crop_result = crop_args
          ELSE LET r0 == First({q[1] : q \in P})
                   r1 == Last({q[1] : q \in P})
                   c0 == First({q[2] : q \in P})
                   c1 == Last({q[2] : q \in P})
               IN /\ crop_result.mode = crop_args.mode
                  /\ Len(crop_result.pixels) = r1 - r0 + 1
                  /\ \A r \in 1..(r1 - r0 + 1) :
                         /\ Len(crop_result.pixels[r]) = c1 - c0 + 1
                         /\ \A c \in 1..(c1 - c0 + 1) :
                                crop_result.pixels[r][c]
                                    = crop_args.pixels[r0 + r - 1][c0 + c - 1]
                  /\ Cardinality(P) = 1
                     => crop_result.pixels = <<(<<Opaque>>)>>

\* one opaque pixel away from the four borders was cropped to 1x1
C14_Witness ==
    /\ crop_result # None
    /\ crop_args.mode = "RGBA"
    /\ Height(crop_args) = MaxHeight
    /\ Width(crop_args) = MaxWidth
    /\ OpaquePixels(crop_args) = {<<2, 2>>}
    /\ crop_result.pixels = <<(<<Opaque>>)>>

\* C13: a token whose name is no key of the effective map is still there after
\* the fill (as many of them as before when the values carry no braces), and
\* a template with no token of any key of the effective map comes back as it
\* was.
C13_UnknownTokensAreKept ==
    fill_args # None
    => LET t == fill_args[1]
           g == fill_args[2]
           e == fill_args[3]
       IN /\ \A n \in TokenNames \ EffectiveKeys(g, e) :
                 /\ Occurrences(fill_result, Placeholder(n))
                        >= Occurrences(t, Placeholder(n))
                 /\ (BraceFree(g) /\ BraceFree(e))
                    => Occurrences(fill_result, Placeholder(n))
                           = Occurrences(t, Placeholder(n))
          /\ (\A k \in EffectiveKeys(g, e) :
                  Occurrences(t, Placeholder(k)) = 0)
             => fill_result = t

\* {{x}} was filled and the {{g}} next to it, of no map, was kept
C13_Witness ==
    /\ fill_args # None
    /\ fill_args[1] = OverlayTemplate
    /\ "g" \notin EffectiveKeys(fill_args[2], fill_args[3])
    /\ fill_result = <<"<", "A">> \o Placeholder("g") \o <<">">>

\* C17, as claimed: the items of the effective map substituted in any other
\* order give the text that fill_template gave.
C17_OrderDoesNotMatter ==
    fill_args # None
    => \A order \in Reorderings(MergeParams(fill_args[2], fill_args[3])) :
           SubstituteAll(fill_args[1], order) = fill_result

\* C18: the fill gives what it gives when no map has the key timestamp, and
\* with values free of braces the text has as many {{timestamp}} as before.
C18_TimestampNeverSubstituted ==
    fill_args # None
    => LET t == fill_args[1]
           g == fill_args[2]
           e == fill_args[3]
       IN /\ fill_result = SubstituteAll(t, Without(MergeParams(g, e),
                                                    "timestamp"))
          /\ (BraceFree(g) /\ BraceFree(e))
             => Occurrences(fill_result, Placeholder("timestamp"))
                    = Occurrences(t, Placeholder("timestamp"))

\* --set timestamp=G and a template with {{timestamp}}, which was kept
C18_Witness ==
    /\ fill_args # None
    /\ "timestamp" \in Keys(fill_args[2])
    /\ BraceFree(fill_args[2])
    /\ Occurrences(fill_args[1], Placeholder("timestamp")) = 1
    /\ Occurrences(fill_result, Placeholder("timestamp")) = 1

====
